---- MODULE Spec2Model ----
(***************************************************************************)
(* Model of the peer-connection engine (connection/engine.go).             *)
(*                                                                         *)
(* Processes: Engine.Start, one establishment task per InitializePeer     *)
(* goroutine, one caller of RemovePeerConnection, one caller of           *)
(* GetPeerConnectionStatus and the goroutine of the signal client that    *)
(* runs the handler registered by receiveSignal.  Every critical section  *)
(* of PeerMux is two steps: Lock, then the body up to Unlock.             *)
(*                                                                         *)
(* Spec and FairSpec run one engine against an arbitrary environment.     *)
(* RelaySpec runs two engines, each the other's peer, on one relay.       *)
(*                                                                         *)
(* connection.go, the signal client and the iface package are not part of *)
(* the sources at hand: Connection is modelled from sections 4.2 of the   *)
(* specification, the interface calls as calls that succeed or fail.      *)
(***************************************************************************)
EXTENDS Integers, FiniteSets, Sequences, TLC

(* ------------------------------ bounds -------------------------------- *)

\* InitializePeer goroutines the engine may run (configured and added at run time)
MaxTasks == 2

\* Connections NewConnection may build in one run
MaxConns == 2

\* the attempt counter of a task saturates here
MaxAttempts == 2

\* calls and inbound messages the environment makes in one run
MaxEvents == 2

(* ------------------------- program constants -------------------------- *)

\* backoff.DefaultInitialInterval, in milliseconds
InitialInterval == 500

\* backoff.DefaultMultiplier is 1.5
MultiplierNum == 3

MultiplierDen == 2

\* MaxInterval: 5 * time.Second
MaxInterval == 5000

\* MaxElapsedTime: time.Duration(0), never stop
MaxElapsedTime == 0

\* backoff.Stop
Stop == -1

\* a nil *Connection
NoConn == 0

(* ------------------------------- keys --------------------------------- *)

\* wgtypes.Key values: the all-zero key and two real keys
ZeroKey == "zero"

KeyA == "A"

KeyB == "B"

\* the key strings a Peer record may carry: a canonical key, the canonical
\* text of the all-zero key, and a text that is no base64 key at all
PeerStrings == {"kA=", "AAAA=", "bad!"}

\* the sender keys of inbound messages: always String() of a key; "kX=" is a
\* key the engine has no peer for
SenderStrings == {"kA=", "AAAA=", "kX="}

MapKeys == PeerStrings \cup SenderStrings

\* wgtypes.ParseKey: the key and whether parsing failed; on failure the
\* result is the zero value of Key
ParseKey(s) ==
    CASE s = "kA="   -> [key |-> KeyA, err |-> FALSE]
      [] s = "kB="   -> [key |-> KeyB, err |-> FALSE]
      [] s = "AAAA=" -> [key |-> ZeroKey, err |-> FALSE]
      [] OTHER       -> [key |-> ZeroKey, err |-> TRUE]

\* Key.String(): the canonical base64 text
KeyString(k) ==
    CASE k = KeyA -> "kA="
      [] k = KeyB -> "kB="
      [] OTHER    -> "AAAA="

(* ------------------------------ state --------------------------------- *)

Tasks == 1..MaxTasks

ConnIds == 1..MaxConns

MsgTypes == {"OFFER", "ANSWER", "CANDIDATE"}

Messages == [key : SenderStrings, type : MsgTypes, valid : BOOLEAN]

NoMsg == [key |-> "", type |-> "NONE", valid |-> TRUE]

NoCall == [cb |-> "none", conn |-> NoConn]

Free == <<"free">>

TaskId(t) == <<"task", t>>

CallerId == <<"caller">>

NoReturn == [op |-> "none", conn |-> NoConn, err |-> FALSE]

VARIABLES
    startPc,      \* position of Engine.Start
    startErr,     \* the interface call whose error Start returned ("nil": none)
    registered,   \* the handler of receiveSignal is registered with the signal client
    conns,        \* Engine.conns: key string -> Connection (NoConn: no entry)
    mutex,        \* holder of Engine.PeerMux
    conn,         \* the Connections built so far
    nextId,       \* the next Connection NewConnection builds
    pc,           \* position of each InitializePeer goroutine
    peer,         \* its Peer.WgPubKey
    cur,          \* the Connection its current attempt built
    err,          \* whether openPeerConnection returned an error
    attempts,     \* attempts it has completed (saturating)
    stopReason,   \* why its retry loop ended
    cancelled,    \* RemovePeerConnection deleted its peer's entry while it was retrying
    callPc,       \* the caller of RemovePeerConnection and GetPeerConnectionStatus
    callArg,      \* the key it passed
    callRet,      \* what its last call returned
    sigPc,        \* position of the handler
    msg,          \* the message it handles
    sigConn,      \* the Connection it read from the map
    sigRes,       \* what it returned for the last message
    sigCall,      \* the callback it called for the last message
    badSeen,      \* a sender a CANDIDATE with an unparseable payload came from
    events,       \* calls and inbound messages so far
    fatal,        \* the runtime ended the process
    \* two engines on one signaling relay, each a function of the engine:
    pConns,       \* Engine.conns
    pMutex,       \* holder of Engine.PeerMux
    pConn,        \* the Connections the engine built
    pNextId,      \* the next Connection its NewConnection builds
    pPc,          \* position of its InitializePeer goroutine
    pCur,         \* the Connection the current attempt built
    pErr,         \* whether openPeerConnection returned an error
    pAttempts,    \* attempts completed (saturating)
    pStop,        \* why the retry loop ended
    pSigPc,       \* position of its handler
    pMsg,         \* the message the handler handles
    pSigConn,     \* the Connection the handler read from the map
    pSigRes,      \* what the handler returned for the last message
    pFatal,       \* the runtime ended the engine's process
    pTimedOut,    \* an attempt of the engine ended by timeout
    pCandSent,    \* a Connection of the engine has sent a CANDIDATE
    queue,        \* the relay: messages on their way to each engine, in order
    drops,        \* the engines whose first OFFER the relay drops
    dropped       \* the engines whose first OFFER it has dropped

engineVars == <<startPc, startErr, registered, conns, mutex, conn, nextId, pc, peer, cur, err,
                attempts, stopReason, cancelled, callPc, callArg, callRet,
                sigPc, msg, sigConn, sigRes, sigCall, badSeen, events, fatal>>

pairVars == <<pConns, pMutex, pConn, pNextId, pPc, pCur, pErr, pAttempts, pStop,
              pSigPc, pMsg, pSigConn, pSigRes, pFatal, pTimedOut, pCandSent,
              queue, drops, dropped>>

vars == <<engineVars, pairVars>>

startVars == <<startPc, startErr, registered>>

taskVars == <<pc, peer, cur, err, attempts, stopReason>>

callVars == <<callPc, callArg, callRet>>

sigVars == <<sigPc, msg, sigConn, sigRes, sigCall, badSeen>>

\* a Connection not built yet
Unbuilt == [status |-> "None", remoteKey |-> ZeroKey, rcred |-> FALSE]

\* NewEngine: an empty map and an unlocked mutex; nothing runs yet
EngineInit ==
    /\ startPc = "create"
    /\ startErr = "nil"
    /\ registered = FALSE
    /\ conns = [k \in MapKeys |-> NoConn]
    /\ mutex = Free
    /\ conn = [c \in ConnIds |-> Unbuilt]
    /\ nextId = 1
    /\ pc = [t \in Tasks |-> "idle"]
    /\ peer = [t \in Tasks |-> ""]
    /\ cur = [t \in Tasks |-> NoConn]
    /\ err = [t \in Tasks |-> FALSE]
    /\ attempts = [t \in Tasks |-> 0]
    /\ stopReason = [t \in Tasks |-> "none"]
    /\ cancelled = [t \in Tasks |-> FALSE]
    /\ callPc = "idle" /\ callArg = "" /\ callRet = NoReturn
    /\ sigPc = "wait" /\ msg = NoMsg /\ sigConn = NoConn
    /\ sigRes = "none" /\ sigCall = NoCall
    /\ badSeen = ""
    /\ events = 0
    /\ fatal = FALSE

\* the two engines of the relay scenario
Engines == {"A", "B"}

Other(e) == IF e = "A" THEN "B" ELSE "A"

\* myKey.PublicKey().String() of an engine
EngineKey(e) == IF e = "A" THEN "kA=" ELSE "kB="

\* the one Peer each engine is started with: the other engine
PeerOf(e) == EngineKey(Other(e))

PairKeys == {EngineKey(e) : e \in Engines}

PairNoMsg == [key |-> "", to |-> "", type |-> "NONE", valid |-> TRUE]

\* NewEngine twice, Start of both engines done up to receiveSignal (the
\* handlers are registered, no goroutine runs yet); d: the engines whose
\* first OFFER the relay will drop
PairInit(d) ==
    /\ drops = d
    /\ dropped = {}
    /\ queue = [e \in Engines |-> <<>>]
    /\ pConns = [e \in Engines |-> [k \in PairKeys |-> NoConn]]
    /\ pMutex = [e \in Engines |-> Free]
    /\ pConn = [e \in Engines |-> [c \in ConnIds |-> Unbuilt]]
    /\ pNextId = [e \in Engines |-> 1]
    /\ pPc = [e \in Engines |-> "idle"]
    /\ pCur = [e \in Engines |-> NoConn]
    /\ pErr = [e \in Engines |-> FALSE]
    /\ pAttempts = [e \in Engines |-> 0]
    /\ pStop = [e \in Engines |-> "none"]
    /\ pSigPc = [e \in Engines |-> "wait"]
    /\ pMsg = [e \in Engines |-> PairNoMsg]
    /\ pSigConn = [e \in Engines |-> NoConn]
    /\ pSigRes = [e \in Engines |-> "none"]
    /\ pFatal = [e \in Engines |-> FALSE]
    /\ pTimedOut = [e \in Engines |-> FALSE]
    /\ pCandSent = [e \in Engines |-> FALSE]

\* one engine and its callers; the relay scenario does not run
Init == EngineInit /\ PairInit({})

(* ------------------------------ helpers ------------------------------- *)

Min(a, b) == IF a < b THEN a ELSE b

\* the Peer lists Start may be given: up to MaxTasks peers
PeerLists == UNION {[1..n -> PeerStrings] : n \in 0..MaxTasks}

\* the idle task slot the next `go e.InitializePeer` takes
FreeSlot == CHOOSE t \in Tasks : pc[t] = "idle" /\ \A u \in Tasks : pc[u] = "idle" => t <= u

\* ExponentialBackOff.incrementCurrentInterval
IncrementCurrentInterval(iv) ==
    IF iv * MultiplierNum >= MaxInterval * MultiplierDen
    THEN MaxInterval
    ELSE (iv * MultiplierNum) \div MultiplierDen

\* the current interval after n calls of NextBackOff (Reset sets InitialInterval)
RECURSIVE CurrentInterval(_)
CurrentInterval(n) ==
    IF n = 0 THEN InitialInterval ELSE IncrementCurrentInterval(CurrentInterval(n - 1))

\* ExponentialBackOff.NextBackOff: Stop once the elapsed time passes
\* MaxElapsedTime, unless MaxElapsedTime is 0.  The randomisation of the
\* delay changes no state and is left out; elapsed is a lower bound of the
\* time since Retry began, one millisecond for each completed attempt.
NextBackOff(n) ==
    IF MaxElapsedTime # 0 /\ n + CurrentInterval(n) > MaxElapsedTime
    THEN Stop
    ELSE CurrentInterval(n)

(* ---------------------------- Engine.Start ---------------------------- *)

\* iface.Create
StartCreate ==
    /\ ~fatal /\ startPc = "create"
    /\ \E ok \in BOOLEAN :
         /\ startPc' = IF ok THEN "configure" ELSE "failed"
         /\ startErr' = IF ok THEN startErr ELSE "create"
    /\ UNCHANGED pairVars
    /\ UNCHANGED <<registered, conns, mutex, conn, nextId, taskVars, cancelled,
                   callVars, sigVars, events, fatal>>

\* StartConfigure with the error of iface.Configure logged but not returned
StartConfigureIgnoresError ==
    /\ ~fatal /\ startPc = "configure"
    /\ \E ok \in BOOLEAN :
         /\ startPc' = "getport"
         /\ startErr' = IF ok THEN startErr ELSE "configure"
    /\ UNCHANGED pairVars
    /\ UNCHANGED <<registered, conns, mutex, conn, nextId, taskVars, cancelled,
                   callVars, sigVars, events, fatal>>

\* iface.Configure
StartConfigure ==
    /\ ~fatal /\ startPc = "configure"
    /\ \E ok \in BOOLEAN :
         /\ startPc' = IF ok THEN "getport" ELSE "failed"
         /\ startErr' = IF ok THEN startErr ELSE "configure"
    /\ UNCHANGED pairVars
    /\ UNCHANGED <<registered, conns, mutex, conn, nextId, taskVars, cancelled,
                   callVars, sigVars, events, fatal>>

\* iface.GetListenPort
StartGetListenPort ==
    /\ ~fatal /\ startPc = "getport"
    /\ \E ok \in BOOLEAN :
         /\ startPc' = IF ok THEN "receive" ELSE "failed"
         /\ startErr' = IF ok THEN startErr ELSE "port"
    /\ UNCHANGED pairVars
    /\ UNCHANGED <<registered, conns, mutex, conn, nextId, taskVars, cancelled,
                   callVars, sigVars, events, fatal>>

\* e.receiveSignal(): registers the handler and waits for the signal client
StartReceiveSignal ==
    /\ ~fatal /\ startPc = "receive"
    /\ registered' = TRUE
    /\ startPc' = "launch"
    /\ UNCHANGED pairVars
    /\ UNCHANGED <<startErr, conns, mutex, conn, nextId, taskVars, cancelled,
                   callVars, sigVars, events, fatal>>

\* the loop over peers: one goroutine each; then the HTTP goroutine, return nil
StartLaunch ==
    /\ ~fatal /\ startPc = "launch"
    /\ \E ps \in PeerLists :
         /\ pc' = [t \in Tasks |-> IF t \in DOMAIN ps THEN "open_lock" ELSE "idle"]
         /\ peer' = [t \in Tasks |-> IF t \in DOMAIN ps THEN ps[t] ELSE ""]
    /\ startPc' = "serving"
    /\ UNCHANGED pairVars
    /\ UNCHANGED <<startErr, registered, conns, mutex, conn, nextId, cur, err, attempts,
                   stopReason, cancelled, callVars, sigVars, events, fatal>>

\* the handler of "/peer": go e.InitializePeer for the peer of the request
AddPeer(p) ==
    /\ ~fatal /\ startPc = "serving"
    /\ \E t \in Tasks : pc[t] = "idle"
    /\ pc' = [pc EXCEPT ![FreeSlot] = "open_lock"]
    /\ peer' = [peer EXCEPT ![FreeSlot] = p]
    /\ UNCHANGED pairVars
    /\ UNCHANGED <<startVars, conns, mutex, conn, nextId, cur, err, attempts,
                   stopReason, cancelled, callVars, sigVars, events, fatal>>

(* ----------------------------- Connection ----------------------------- *)

\* NewConnection: a Connection in state New for the configured remote key
NewConnection(remoteKey) ==
    [status |-> "New", remoteKey |-> remoteKey, rcred |-> FALSE]

\* Connection.OnOffer: records the remote credentials and answers; valid in
\* New and Negotiating only, a state error otherwise
OnOffer(r) ==
    IF r.status \in {"New", "Negotiating"}
    THEN [res |-> "ok", c |-> [r EXCEPT !.status = "Negotiating", !.rcred = TRUE]]
    ELSE [res |-> "state_error", c |-> r]

\* Connection.OnAnswer: records the remote credentials; same validity
OnAnswer(r) ==
    IF r.status \in {"New", "Negotiating"}
    THEN [res |-> "ok", c |-> [r EXCEPT !.status = "Negotiating", !.rcred = TRUE]]
    ELSE [res |-> "state_error", c |-> r]

\* Connection.OnRemoteCandidate: valid any time before Closed; the candidate
\* goes to the path selection, which is not part of the record
OnRemoteCandidate(r) ==
    IF r.status # "Closed"
    THEN [res |-> "ok", c |-> r]
    ELSE [res |-> "state_error", c |-> r]

\* Connection.Close: to Closed, idempotent, no error
Close(r) == [res |-> "nil", c |-> [r EXCEPT !.status = "Closed"]]

(* ----------------------- Engine.openPeerConnection -------------------- *)

\* StoreKey with the string of the Peer record used as it is
StoreKeyAsGiven(p) == p

\* the key openPeerConnection stores under: remoteKey.String() of the key
\* ParseKey returned, the error of ParseKey being dropped
StoreKey(p) == KeyString(ParseKey(p).key)

\* the key InitializePeer, RemovePeerConnection and GetPeerConnectionStatus
\* look up: the string as given
LookupKey(p) == p

\* e.PeerMux.Lock() of openPeerConnection
OpenLock(t) ==
    /\ ~fatal /\ pc[t] = "open_lock"
    /\ mutex = Free
    /\ nextId <= MaxConns
    /\ mutex' = TaskId(t)
    /\ pc' = [pc EXCEPT ![t] = "open_cs"]
    /\ UNCHANGED pairVars
    /\ UNCHANGED <<startVars, conns, conn, nextId, peer, cur, err, attempts,
                   stopReason, cancelled, callVars, sigVars, events, fatal>>

\* ParseKey, NewConnection, e.conns[remoteKey.String()] = conn, Unlock
OpenStore(t) ==
    /\ ~fatal /\ pc[t] = "open_cs"
    /\ conn' = [conn EXCEPT ![nextId] = NewConnection(ParseKey(peer[t]).key)]
    /\ conns' = [conns EXCEPT ![StoreKey(peer[t])] = nextId]
    /\ cur' = [cur EXCEPT ![t] = nextId]
    /\ nextId' = nextId + 1
    /\ mutex' = Free
    /\ pc' = [pc EXCEPT ![t] = "opening"]
    /\ UNCHANGED pairVars
    /\ UNCHANGED <<startVars, peer, err, attempts, stopReason, cancelled,
                   callVars, sigVars, events, fatal>>

\* conn.Open begins: an OFFER is sent unless the Connection already answers
\* one; a Connection closed in between makes Open return an error
OpenBegin(t) ==
    /\ ~fatal /\ pc[t] = "opening"
    /\ IF conn[cur[t]].status = "Closed"
       THEN /\ pc' = [pc EXCEPT ![t] = "check_lock"]
            /\ err' = [err EXCEPT ![t] = TRUE]
            /\ conn' = conn
       ELSE /\ pc' = [pc EXCEPT ![t] = "blocked"]
            /\ err' = err
            /\ conn' = [conn EXCEPT ![cur[t]].status = "Negotiating"]
    /\ UNCHANGED pairVars
    /\ UNCHANGED <<startVars, conns, mutex, nextId, peer, cur, attempts,
                   stopReason, cancelled, callVars, sigVars, events, fatal>>

\* conn.Open returns nil: a usable path was selected
OpenConnected(t) ==
    /\ ~fatal /\ pc[t] = "blocked"
    /\ conn[cur[t]].status = "Negotiating" /\ conn[cur[t]].rcred
    /\ conn' = [conn EXCEPT ![cur[t]].status = "Connected"]
    /\ err' = [err EXCEPT ![t] = FALSE]
    /\ pc' = [pc EXCEPT ![t] = "check_lock"]
    /\ UNCHANGED pairVars
    /\ UNCHANGED <<startVars, conns, mutex, nextId, peer, cur, attempts,
                   stopReason, cancelled, callVars, sigVars, events, fatal>>

\* conn.Open returns the timeout error after PeerConnectionTimeout
OpenTimeout(t) ==
    /\ ~fatal /\ pc[t] = "blocked"
    /\ conn[cur[t]].status = "Negotiating"
    /\ conn' = [conn EXCEPT ![cur[t]].status = "Failed"]
    /\ err' = [err EXCEPT ![t] = TRUE]
    /\ pc' = [pc EXCEPT ![t] = "check_lock"]
    /\ UNCHANGED pairVars
    /\ UNCHANGED <<startVars, conns, mutex, nextId, peer, cur, attempts,
                   stopReason, cancelled, callVars, sigVars, events, fatal>>

\* conn.Open returns an error: the Connection was closed while it blocked
OpenClosed(t) ==
    /\ ~fatal /\ pc[t] = "blocked"
    /\ conn[cur[t]].status = "Closed"
    /\ err' = [err EXCEPT ![t] = TRUE]
    /\ pc' = [pc EXCEPT ![t] = "check_lock"]
    /\ UNCHANGED pairVars
    /\ UNCHANGED <<startVars, conns, mutex, conn, nextId, peer, cur, attempts,
                   stopReason, cancelled, callVars, sigVars, events, fatal>>

(* ------------------------ Engine.InitializePeer ----------------------- *)

\* what operation returns after the attempt: nil when the entry is gone,
\* the error of the attempt when it failed, nil otherwise
Operation(present, failed) ==
    IF ~present THEN "removed"
    ELSE IF failed THEN "error"
    ELSE "success"

\* e.PeerMux.Lock() of operation, after openPeerConnection returned
CheckLock(t) ==
    /\ ~fatal /\ pc[t] = "check_lock"
    /\ mutex = Free
    /\ mutex' = TaskId(t)
    /\ pc' = [pc EXCEPT ![t] = "check_cs"]
    /\ UNCHANGED pairVars
    /\ UNCHANGED <<startVars, conns, conn, nextId, peer, cur, err, attempts,
                   stopReason, cancelled, callVars, sigVars, events, fatal>>

\* the presence check, the deferred Unlock, and backoff.Retry's reaction:
\* return on nil, panic when NextBackOff is Stop, sleep otherwise
Check(t) ==
    /\ ~fatal /\ pc[t] = "check_cs"
    /\ LET r == Operation(conns[LookupKey(peer[t])] # NoConn, err[t])
       IN  /\ pc' = [pc EXCEPT ![t] =
                 IF r # "error" THEN "done"
                 ELSE IF NextBackOff(attempts[t]) = Stop THEN "panic"
                 ELSE "backoff"]
           /\ stopReason' = [stopReason EXCEPT ![t] = IF r # "error" THEN r ELSE @]
           /\ fatal' = (r = "error" /\ NextBackOff(attempts[t]) = Stop)
    /\ attempts' = [attempts EXCEPT ![t] = Min(@ + 1, MaxAttempts)]
    /\ cur' = [cur EXCEPT ![t] = NoConn]
    /\ err' = [err EXCEPT ![t] = FALSE]
    /\ mutex' = Free
    /\ UNCHANGED pairVars
    /\ UNCHANGED <<startVars, conns, conn, nextId, peer, cancelled,
                   callVars, sigVars, events>>

\* the sleep of backoff.Retry ends: operation is called again
BackoffElapsed(t) ==
    /\ ~fatal /\ pc[t] = "backoff"
    /\ pc' = [pc EXCEPT ![t] = "open_lock"]
    /\ UNCHANGED pairVars
    /\ UNCHANGED <<startVars, conns, mutex, conn, nextId, peer, cur, err, attempts,
                   stopReason, cancelled, callVars, sigVars, events, fatal>>

(* --------------------- Engine.RemovePeerConnection -------------------- *)

\* whether RemovePeerConnection finds a Connection to remove
Exists(m, p) == m[LookupKey(p)] # NoConn

\* the map RemovePeerConnection leaves
RemoveEntry(m, p) == IF Exists(m, p) THEN [m EXCEPT ![LookupKey(p)] = NoConn] ELSE m

\* CloseEntry without the call of conn.Close()
CloseEntryForgotten(cs, m, p) == cs

\* the Connections after RemovePeerConnection: the one it found is closed
CloseEntry(cs, m, p) ==
    IF Exists(m, p) THEN [cs EXCEPT ![m[LookupKey(p)]] = Close(@).c] ELSE cs

\* whether RemovePeerConnection returns an error: that of conn.Close(), if any
RemoveError(cs, m, p) == Exists(m, p) /\ Close(cs[m[LookupKey(p)]]).res # "nil"

\* the tasks of peer p that are inside conn.Open or in the sleep of backoff.Retry
Retrying(p) == {t \in Tasks : peer[t] = p /\ pc[t] \in {"opening", "blocked", "backoff"}}

\* e.PeerMux.Lock() of RemovePeerConnection
RemoveLock(p) ==
    /\ ~fatal /\ callPc = "idle"
    /\ events < MaxEvents
    /\ mutex = Free
    /\ mutex' = CallerId
    /\ callPc' = "remove_cs"
    /\ callArg' = p
    /\ callRet' = NoReturn
    /\ events' = events + 1
    /\ UNCHANGED pairVars
    /\ UNCHANGED <<startVars, conns, conn, nextId, taskVars, cancelled, sigVars, fatal>>

\* the lookup, delete and conn.Close(), and the deferred Unlock
RemoveBody ==
    /\ ~fatal /\ callPc = "remove_cs"
    /\ conns' = RemoveEntry(conns, callArg)
    /\ conn' = CloseEntry(conn, conns, callArg)
    /\ cancelled' = [t \in Tasks |->
                       cancelled[t] \/ (Exists(conns, callArg) /\ t \in Retrying(callArg))]
    /\ callRet' = [op |-> "remove", conn |-> NoConn, err |-> RemoveError(conn, conns, callArg)]
    /\ mutex' = Free
    /\ callPc' = "idle"
    /\ callArg' = ""
    /\ UNCHANGED pairVars
    /\ UNCHANGED <<startVars, nextId, taskVars, sigVars, events, fatal>>

(* ------------------- Engine.GetPeerConnectionStatus ------------------- *)

\* StatusOf with the key parsed and printed first, as openPeerConnection does
StatusOfParsedKey(m, k) == m[StoreKey(k)]

\* what GetPeerConnectionStatus returns: the Connection whose Status it
\* points to, NoConn for nil
StatusOf(m, k) == m[k]

\* e.PeerMux.Lock() of GetPeerConnectionStatus
GetStatusLock(k) ==
    /\ ~fatal /\ callPc = "idle"
    /\ events < MaxEvents
    /\ mutex = Free
    /\ mutex' = CallerId
    /\ callPc' = "status_cs"
    /\ callArg' = k
    /\ callRet' = NoReturn
    /\ events' = events + 1
    /\ UNCHANGED pairVars
    /\ UNCHANGED <<startVars, conns, conn, nextId, taskVars, cancelled, sigVars, fatal>>

\* the lookup, the return of &conn.Status or nil, and the deferred Unlock
GetStatusBody ==
    /\ ~fatal /\ callPc = "status_cs"
    /\ callRet' = [op |-> "status", conn |-> StatusOf(conns, callArg), err |-> FALSE]
    /\ mutex' = Free
    /\ callPc' = "idle"
    /\ callArg' = ""
    /\ UNCHANGED pairVars
    /\ UNCHANGED <<startVars, conns, conn, nextId, taskVars, cancelled, sigVars,
                   events, fatal>>

(* ------------------------ Engine.receiveSignal ------------------------ *)

\* the signal client hands the next inbound message to the handler
HandlerReceive(m) ==
    /\ ~fatal /\ registered /\ sigPc = "wait"
    /\ events < MaxEvents
    /\ msg' = m
    /\ sigPc' = "lookup"
    /\ sigConn' = NoConn
    /\ sigRes' = "none"
    /\ sigCall' = NoCall
    /\ events' = events + 1
    /\ UNCHANGED pairVars
    /\ UNCHANGED <<startVars, conns, mutex, conn, nextId, taskVars, cancelled,
                   callVars, badSeen, fatal>>

\* what the handler does with the Connection c it read from e.conns[msg.Key]
Route(c, k) ==
    IF c = NoConn THEN "wrongly_addressed"
    ELSE IF KeyString(conn[c].remoteKey) # k THEN "unknown_peer"
    ELSE "dispatch"

\* HandlerLookup that builds and stores a Connection for the unknown sender
\* of an OFFER instead of dropping the message
HandlerLookupCreates ==
    /\ ~fatal /\ sigPc = "lookup"
    /\ IF conns[msg.key] = NoConn /\ msg.type = "OFFER" /\ nextId <= MaxConns
       THEN /\ conn' = [conn EXCEPT ![nextId] = NewConnection(ParseKey(msg.key).key)]
            /\ conns' = [conns EXCEPT ![msg.key] = nextId]
            /\ nextId' = nextId + 1
            /\ sigConn' = nextId
            /\ sigPc' = "dispatch"
            /\ UNCHANGED <<msg, sigRes>>
       ELSE /\ IF Route(conns[msg.key], msg.key) = "dispatch"
               THEN /\ sigConn' = conns[msg.key]
                    /\ sigPc' = "dispatch"
                    /\ UNCHANGED <<msg, sigRes>>
               ELSE /\ sigRes' = Route(conns[msg.key], msg.key)
                    /\ sigPc' = "wait"
                    /\ msg' = NoMsg
                    /\ sigConn' = NoConn
            /\ UNCHANGED <<conns, conn, nextId>>
    /\ UNCHANGED pairVars
    /\ UNCHANGED <<startVars, mutex, taskVars, cancelled,
                   callVars, sigCall, badSeen, events, fatal>>

\* conn := e.conns[msg.Key], read without PeerMux, and the two checks on it
HandlerLookup ==
    /\ ~fatal /\ sigPc = "lookup"
    /\ LET r == Route(conns[msg.key], msg.key)
       IN  IF r = "dispatch"
           THEN /\ sigConn' = conns[msg.key]
                /\ sigPc' = "dispatch"
                /\ UNCHANGED <<msg, sigRes>>
           ELSE /\ sigRes' = r
                /\ sigPc' = "wait"
                /\ msg' = NoMsg
                /\ sigConn' = NoConn
    /\ UNCHANGED pairVars
    /\ UNCHANGED <<startVars, conns, mutex, conn, nextId, taskVars, cancelled,
                   callVars, sigCall, badSeen, events, fatal>>

\* Callback without the check of the unmarshalling error
CallbackUnchecked(m) ==
    CASE m.type = "OFFER"     -> "OnOffer"
      [] m.type = "ANSWER"    -> "OnAnswer"
      [] m.type = "CANDIDATE" -> "OnRemoteCandidate"

\* Callback with the ANSWER case calling OnOffer, as the OFFER case does
CallbackAnswerAsOffer(m) ==
    IF ~m.valid THEN "none"
    ELSE CASE m.type = "OFFER"     -> "OnOffer"
           [] m.type = "ANSWER"    -> "OnOffer"
           [] m.type = "CANDIDATE" -> "OnRemoteCandidate"

\* the callback the switch on the body type calls; none when the payload
\* cannot be unmarshalled
Callback(m) ==
    IF ~m.valid THEN "none"
    ELSE CASE m.type = "OFFER"     -> "OnOffer"
           [] m.type = "ANSWER"    -> "OnAnswer"
           [] m.type = "CANDIDATE" -> "OnRemoteCandidate"

\* Apply with the error of the callback dropped: the handler returns nil
ApplySwallowsError(cb, r) ==
    CASE cb = "OnOffer"           -> [res |-> "ok", c |-> OnOffer(r).c]
      [] cb = "OnAnswer"          -> [res |-> "ok", c |-> OnAnswer(r).c]
      [] cb = "OnRemoteCandidate" -> [res |-> "ok", c |-> OnRemoteCandidate(r).c]
      [] OTHER                    -> [res |-> "parse_error", c |-> r]

\* the result of that callback on Connection record r
Apply(cb, r) ==
    CASE cb = "OnOffer"           -> OnOffer(r)
      [] cb = "OnAnswer"          -> OnAnswer(r)
      [] cb = "OnRemoteCandidate" -> OnRemoteCandidate(r)
      [] OTHER                    -> [res |-> "parse_error", c |-> r]

\* the switch: unmarshal the payload, call the callback, return its error
HandlerDispatch ==
    /\ ~fatal /\ sigPc = "dispatch"
    /\ conn' = [conn EXCEPT ![sigConn] = Apply(Callback(msg), @).c]
    /\ sigRes' = Apply(Callback(msg), conn[sigConn]).res
    /\ sigCall' = IF Callback(msg) = "none" THEN NoCall
                  ELSE [cb |-> Callback(msg), conn |-> sigConn]
    /\ badSeen' = IF msg.type = "CANDIDATE" /\ ~msg.valid /\ badSeen = ""
                  THEN msg.key ELSE badSeen
    /\ sigPc' = "wait"
    /\ msg' = NoMsg
    /\ sigConn' = NoConn
    /\ UNCHANGED pairVars
    /\ UNCHANGED <<startVars, conns, mutex, nextId, taskVars, cancelled,
                   callVars, events, fatal>>

\* a goroutine is about to write e.conns inside its critical section
MapWriter ==
    \/ \E t \in Tasks : pc[t] = "open_cs"
    \/ callPc = "remove_cs" /\ Exists(conns, callArg)

\* the handler's unsynchronised read of e.conns meets a write: besides
\* reading the map as it was before or after the write (the two orders of
\* HandlerLookup and the write), the runtime may end the process with
\* "concurrent map read and map write"
MapFault ==
    /\ ~fatal /\ sigPc = "lookup"
    /\ MapWriter
    /\ fatal' = TRUE
    /\ UNCHANGED pairVars
    /\ UNCHANGED <<startVars, conns, mutex, conn, nextId, taskVars, cancelled,
                   callVars, sigVars, events>>

(* --------------------------- specification ---------------------------- *)

TaskStep(t) ==
    \/ OpenLock(t)
    \/ OpenStore(t)
    \/ OpenBegin(t)
    \/ OpenConnected(t)
    \/ OpenTimeout(t)
    \/ OpenClosed(t)
    \/ CheckLock(t)
    \/ Check(t)
    \/ BackoffElapsed(t)

Next ==
    \/ StartCreate
    \/ StartConfigure
    \/ StartGetListenPort
    \/ StartReceiveSignal
    \/ StartLaunch
    \/ \E p \in PeerStrings : AddPeer(p)
    \/ \E t \in Tasks : TaskStep(t)
    \/ \E p \in PeerStrings : RemoveLock(p)
    \/ RemoveBody
    \/ \E k \in MapKeys : GetStatusLock(k)
    \/ GetStatusBody
    \/ \E m \in Messages : HandlerReceive(m)
    \/ HandlerLookup
    \/ HandlerDispatch
    \/ MapFault

Spec == Init /\ [][Next]_vars

\* Scheduling: every goroutine that can run does run; sync.Mutex hands the
\* lock to a goroutine that keeps asking for it (its starvation mode);
\* conn.Open returns, at the latest after PeerConnectionTimeout; the sleep of
\* backoff.Retry ends.  Nothing is assumed of the environment (Start's
\* caller, the callers of the API, the signal server).
Fairness ==
    /\ \A t \in Tasks :
         /\ SF_vars(OpenLock(t))
         /\ WF_vars(OpenStore(t))
         /\ WF_vars(OpenBegin(t))
         /\ WF_vars(OpenConnected(t) \/ OpenTimeout(t) \/ OpenClosed(t))
         /\ SF_vars(CheckLock(t))
         /\ WF_vars(Check(t))
         /\ WF_vars(BackoffElapsed(t))
    /\ WF_vars(RemoveBody)
    /\ WF_vars(GetStatusBody)
    /\ WF_vars(HandlerLookup)
    /\ WF_vars(HandlerDispatch)

FairSpec == Spec /\ Fairness

(* ------------------- two engines on one signaling relay --------------- *)

\* Engine A and engine B run the code above, each with the other as its
\* only peer, attached to a relay that delivers the messages for an engine
\* in the order they were sent.  Nobody calls RemovePeerConnection.  The
\* relay and the engines are fast against the timers of the code: a
\* Connection times out (PeerConnectionTimeout, 60 s) only when no message
\* is on its way, no handler runs, and no task is about to send or is in the
\* sleep of backoff.Retry (MaxInterval, 5 s).

\* signalAuth and signalCandidate: the message a Connection of engine e
\* with remote key rk sends
SignalMessage(e, rk, ty) ==
    [key |-> EngineKey(e), to |-> KeyString(rk), type |-> ty, valid |-> TRUE]

\* signal.Client.Send: the relay queues the messages ms for the engine whose
\* key is their recipient key
Send(q, to, ms) == [x \in Engines |-> IF EngineKey(x) = to THEN q[x] \o ms ELSE q[x]]

\* the Connection can select a path: it has the credentials of the remote side
CanConnect(e) ==
    /\ pCur[e] # NoConn
    /\ pConn[e][pCur[e]].status = "Negotiating"
    /\ pConn[e][pCur[e]].rcred

\* the engine has something to do that takes no timer
Busy(e) ==
    /\ ~pFatal[e]
    /\ \/ pPc[e] \in {"idle", "open_cs", "opening", "check_lock", "check_cs", "backoff"}
       \/ pPc[e] = "open_lock" /\ pNextId[e] <= MaxConns
       \/ pPc[e] = "blocked" /\ CanConnect(e)
       \/ pSigPc[e] # "wait"
       \/ queue[e] # <<>>

Quiet == \A e \in Engines : ~Busy(e)

\* go e.InitializePeer(...) for the configured peer
PairLaunch(e) ==
    /\ ~pFatal[e] /\ pPc[e] = "idle"
    /\ pPc' = [pPc EXCEPT ![e] = "open_lock"]
    /\ UNCHANGED engineVars
    /\ UNCHANGED <<pConns, pMutex, pConn, pNextId, pCur, pErr, pAttempts, pStop,
                   pSigPc, pMsg, pSigConn, pSigRes, pFatal, pTimedOut, pCandSent,
                   queue, drops, dropped>>

\* e.PeerMux.Lock() of openPeerConnection
PairOpenLock(e) ==
    /\ ~pFatal[e] /\ pPc[e] = "open_lock"
    /\ pMutex[e] = Free
    /\ pNextId[e] <= MaxConns
    /\ pMutex' = [pMutex EXCEPT ![e] = TaskId(e)]
    /\ pPc' = [pPc EXCEPT ![e] = "open_cs"]
    /\ UNCHANGED engineVars
    /\ UNCHANGED <<pConns, pConn, pNextId, pCur, pErr, pAttempts, pStop,
                   pSigPc, pMsg, pSigConn, pSigRes, pFatal, pTimedOut, pCandSent,
                   queue, drops, dropped>>

\* ParseKey, NewConnection, e.conns[remoteKey.String()] = conn, Unlock
PairOpenStore(e) ==
    /\ ~pFatal[e] /\ pPc[e] = "open_cs"
    /\ pConn' = [pConn EXCEPT ![e][pNextId[e]] = NewConnection(ParseKey(PeerOf(e)).key)]
    /\ pConns' = [pConns EXCEPT ![e][StoreKey(PeerOf(e))] = pNextId[e]]
    /\ pCur' = [pCur EXCEPT ![e] = pNextId[e]]
    /\ pNextId' = [pNextId EXCEPT ![e] = @ + 1]
    /\ pMutex' = [pMutex EXCEPT ![e] = Free]
    /\ pPc' = [pPc EXCEPT ![e] = "opening"]
    /\ UNCHANGED engineVars
    /\ UNCHANGED <<pErr, pAttempts, pStop,
                   pSigPc, pMsg, pSigConn, pSigRes, pFatal, pTimedOut, pCandSent,
                   queue, drops, dropped>>

\* conn.Open begins: it sends an OFFER, unless the Connection already
\* answers one, and a first CANDIDATE; the relay drops the first OFFER of an
\* engine in drops
PairOpenBegin(e) ==
    /\ ~pFatal[e] /\ pPc[e] = "opening"
    /\ LET r == pConn[e][pCur[e]]
           offers == r.status = "New"
           lost == offers /\ e \in drops \ dropped
           out == (IF offers /\ ~lost
                   THEN <<SignalMessage(e, r.remoteKey, "OFFER")>>
                   ELSE <<>>) \o <<SignalMessage(e, r.remoteKey, "CANDIDATE")>>
       IN  /\ pConn' = [pConn EXCEPT ![e][pCur[e]].status = "Negotiating"]
           /\ queue' = Send(queue, KeyString(r.remoteKey), out)
           /\ dropped' = IF lost THEN dropped \cup {e} ELSE dropped
    /\ pCandSent' = [pCandSent EXCEPT ![e] = TRUE]
    /\ pPc' = [pPc EXCEPT ![e] = "blocked"]
    /\ UNCHANGED engineVars
    /\ UNCHANGED <<pConns, pMutex, pNextId, pCur, pErr, pAttempts, pStop,
                   pSigPc, pMsg, pSigConn, pSigRes, pFatal, pTimedOut, drops>>

\* conn.Open returns nil: a usable path was selected
PairOpenConnected(e) ==
    /\ ~pFatal[e] /\ pPc[e] = "blocked"
    /\ CanConnect(e)
    /\ pConn' = [pConn EXCEPT ![e][pCur[e]].status = "Connected"]
    /\ pErr' = [pErr EXCEPT ![e] = FALSE]
    /\ pPc' = [pPc EXCEPT ![e] = "check_lock"]
    /\ UNCHANGED engineVars
    /\ UNCHANGED <<pConns, pMutex, pNextId, pCur, pAttempts, pStop,
                   pSigPc, pMsg, pSigConn, pSigRes, pFatal, pTimedOut, pCandSent,
                   queue, drops, dropped>>

\* conn.Open returns the timeout error after PeerConnectionTimeout
PairOpenTimeout(e) ==
    /\ ~pFatal[e] /\ pPc[e] = "blocked"
    /\ pConn[e][pCur[e]].status = "Negotiating"
    /\ Quiet
    /\ pConn' = [pConn EXCEPT ![e][pCur[e]].status = "Failed"]
    /\ pErr' = [pErr EXCEPT ![e] = TRUE]
    /\ pTimedOut' = [pTimedOut EXCEPT ![e] = TRUE]
    /\ pPc' = [pPc EXCEPT ![e] = "check_lock"]
    /\ UNCHANGED engineVars
    /\ UNCHANGED <<pConns, pMutex, pNextId, pCur, pAttempts, pStop,
                   pSigPc, pMsg, pSigConn, pSigRes, pFatal, pCandSent,
                   queue, drops, dropped>>

\* e.PeerMux.Lock() of operation, after openPeerConnection returned
PairCheckLock(e) ==
    /\ ~pFatal[e] /\ pPc[e] = "check_lock"
    /\ pMutex[e] = Free
    /\ pMutex' = [pMutex EXCEPT ![e] = TaskId(e)]
    /\ pPc' = [pPc EXCEPT ![e] = "check_cs"]
    /\ UNCHANGED engineVars
    /\ UNCHANGED <<pConns, pConn, pNextId, pCur, pErr, pAttempts, pStop,
                   pSigPc, pMsg, pSigConn, pSigRes, pFatal, pTimedOut, pCandSent,
                   queue, drops, dropped>>

\* the presence check, the deferred Unlock, and backoff.Retry's reaction
PairCheck(e) ==
    /\ ~pFatal[e] /\ pPc[e] = "check_cs"
    /\ LET r == Operation(pConns[e][LookupKey(PeerOf(e))] # NoConn, pErr[e])
       IN  /\ pPc' = [pPc EXCEPT ![e] =
                 IF r # "error" THEN "done"
                 ELSE IF NextBackOff(pAttempts[e]) = Stop THEN "panic"
                 ELSE "backoff"]
           /\ pStop' = [pStop EXCEPT ![e] = IF r # "error" THEN r ELSE @]
           /\ pFatal' = [pFatal EXCEPT ![e] = (r = "error" /\ NextBackOff(pAttempts[e]) = Stop)]
    /\ pAttempts' = [pAttempts EXCEPT ![e] = Min(@ + 1, MaxAttempts)]
    /\ pCur' = [pCur EXCEPT ![e] = NoConn]
    /\ pErr' = [pErr EXCEPT ![e] = FALSE]
    /\ pMutex' = [pMutex EXCEPT ![e] = Free]
    /\ UNCHANGED engineVars
    /\ UNCHANGED <<pConns, pConn, pNextId,
                   pSigPc, pMsg, pSigConn, pSigRes, pTimedOut, pCandSent,
                   queue, drops, dropped>>

\* the sleep of backoff.Retry ends: operation is called again
PairBackoffElapsed(e) ==
    /\ ~pFatal[e] /\ pPc[e] = "backoff"
    /\ pPc' = [pPc EXCEPT ![e] = "open_lock"]
    /\ UNCHANGED engineVars
    /\ UNCHANGED <<pConns, pMutex, pConn, pNextId, pCur, pErr, pAttempts, pStop,
                   pSigPc, pMsg, pSigConn, pSigRes, pFatal, pTimedOut, pCandSent,
                   queue, drops, dropped>>

\* the signal client hands the next message of the relay to the handler
PairHandlerReceive(e) ==
    /\ ~pFatal[e] /\ pSigPc[e] = "wait"
    /\ queue[e] # <<>>
    /\ pMsg' = [pMsg EXCEPT ![e] = Head(queue[e])]
    /\ queue' = [queue EXCEPT ![e] = Tail(@)]
    /\ pSigPc' = [pSigPc EXCEPT ![e] = "lookup"]
    /\ pSigConn' = [pSigConn EXCEPT ![e] = NoConn]
    /\ pSigRes' = [pSigRes EXCEPT ![e] = "none"]
    /\ UNCHANGED engineVars
    /\ UNCHANGED <<pConns, pMutex, pConn, pNextId, pPc, pCur, pErr, pAttempts, pStop,
                   pFatal, pTimedOut, pCandSent, drops, dropped>>

\* what the handler of engine e does with the Connection c it read
PairRoute(e, c, k) ==
    IF c = NoConn THEN "wrongly_addressed"
    ELSE IF KeyString(pConn[e][c].remoteKey) # k THEN "unknown_peer"
    ELSE "dispatch"

\* conn := e.conns[msg.Key], read without PeerMux, and the two checks on it
PairHandlerLookup(e) ==
    /\ ~pFatal[e] /\ pSigPc[e] = "lookup"
    /\ LET r == PairRoute(e, pConns[e][pMsg[e].key], pMsg[e].key)
       IN  IF r = "dispatch"
           THEN /\ pSigConn' = [pSigConn EXCEPT ![e] = pConns[e][pMsg[e].key]]
                /\ pSigPc' = [pSigPc EXCEPT ![e] = "dispatch"]
                /\ UNCHANGED <<pMsg, pSigRes>>
           ELSE /\ pSigRes' = [pSigRes EXCEPT ![e] = r]
                /\ pSigPc' = [pSigPc EXCEPT ![e] = "wait"]
                /\ pMsg' = [pMsg EXCEPT ![e] = PairNoMsg]
                /\ pSigConn' = [pSigConn EXCEPT ![e] = NoConn]
    /\ UNCHANGED engineVars
    /\ UNCHANGED <<pConns, pMutex, pConn, pNextId, pPc, pCur, pErr, pAttempts, pStop,
                   pFatal, pTimedOut, pCandSent, queue, drops, dropped>>

\* the switch: unmarshal the payload, call the callback, return its error;
\* OnOffer, when it accepts the OFFER, sends the ANSWER
PairHandlerDispatch(e) ==
    /\ ~pFatal[e] /\ pSigPc[e] = "dispatch"
    /\ LET r == pConn[e][pSigConn[e]]
           a == Apply(Callback(pMsg[e]), r)
       IN  /\ pConn' = [pConn EXCEPT ![e][pSigConn[e]] = a.c]
           /\ pSigRes' = [pSigRes EXCEPT ![e] = a.res]
           /\ queue' = IF pMsg[e].type = "OFFER" /\ a.res = "ok"
                       THEN Send(queue, KeyString(r.remoteKey),
                                 <<SignalMessage(e, r.remoteKey, "ANSWER")>>)
                       ELSE queue
    /\ pSigPc' = [pSigPc EXCEPT ![e] = "wait"]
    /\ pMsg' = [pMsg EXCEPT ![e] = PairNoMsg]
    /\ pSigConn' = [pSigConn EXCEPT ![e] = NoConn]
    /\ UNCHANGED engineVars
    /\ UNCHANGED <<pConns, pMutex, pNextId, pPc, pCur, pErr, pAttempts, pStop,
                   pFatal, pTimedOut, pCandSent, drops, dropped>>

\* the handler's unsynchronised read of e.conns meets the store of
\* openPeerConnection: the runtime may end the process
PairMapFault(e) ==
    /\ ~pFatal[e] /\ pSigPc[e] = "lookup"
    /\ pPc[e] = "open_cs"
    /\ pFatal' = [pFatal EXCEPT ![e] = TRUE]
    /\ UNCHANGED engineVars
    /\ UNCHANGED <<pConns, pMutex, pConn, pNextId, pPc, pCur, pErr, pAttempts, pStop,
                   pSigPc, pMsg, pSigConn, pSigRes, pTimedOut, pCandSent,
                   queue, drops, dropped>>

RelayInit == EngineInit /\ \E d \in SUBSET Engines : PairInit(d)

RelayNext ==
    \/ \E e \in Engines : PairLaunch(e)
    \/ \E e \in Engines : PairOpenLock(e)
    \/ \E e \in Engines : PairOpenStore(e)
    \/ \E e \in Engines : PairOpenBegin(e)
    \/ \E e \in Engines : PairOpenConnected(e)
    \/ \E e \in Engines : PairOpenTimeout(e)
    \/ \E e \in Engines : PairCheckLock(e)
    \/ \E e \in Engines : PairCheck(e)
    \/ \E e \in Engines : PairBackoffElapsed(e)
    \/ \E e \in Engines : PairHandlerReceive(e)
    \/ \E e \in Engines : PairHandlerLookup(e)
    \/ \E e \in Engines : PairHandlerDispatch(e)
    \/ \E e \in Engines : PairMapFault(e)

\* Scheduling: every goroutine of both engines that can run does run, the
\* relay delivers, and a timer that is due fires.
RelayFairness ==
    \A e \in Engines :
        /\ WF_vars(PairLaunch(e))
        /\ WF_vars(PairOpenLock(e))
        /\ WF_vars(PairOpenStore(e))
        /\ WF_vars(PairOpenBegin(e))
        /\ WF_vars(PairOpenConnected(e))
        /\ WF_vars(PairOpenTimeout(e))
        /\ WF_vars(PairCheckLock(e))
        /\ WF_vars(PairCheck(e))
        /\ WF_vars(PairBackoffElapsed(e))
        /\ WF_vars(PairHandlerReceive(e))
        /\ WF_vars(PairHandlerLookup(e))
        /\ WF_vars(PairHandlerDispatch(e))

RelaySpec == RelayInit /\ [][RelayNext]_vars /\ RelayFairness

(* ------------------------------- claims ------------------------------- *)

\* the Connections NewConnection has built
Built == {c \in ConnIds : conn[c].status # "None"}

\* the key a Connection was stored under
KeyOf(c) == KeyString(conn[c].remoteKey)

\* C1: every Connection the engine has built is the map entry of its key or
\* has been closed; a Connection overwritten in the map is never left open.
C1_NoOpenConnectionOutsideMap ==
    \A c \in Built : conns[KeyOf(c)] = c \/ conn[c].status = "Closed"

\* C2: once RemovePeerConnection(P) has deleted P's entry while P's task was
\* inside conn.Open or in the backoff sleep, that task never again has a
\* Connection of its own in the map.
C2_NoEntryAfterRemoval ==
    \A t \in Tasks :
        cancelled[t] => \A k \in MapKeys : cur[t] = NoConn \/ conns[k] # cur[t]

\* C3: the handler never reads the map while another goroutine is inside
\* its critical section, about to write the map.
C3_NoReadDuringWrite ==
    ~(sigPc = "lookup" /\ mutex # Free /\ MapWriter)
\* C4: a task whose attempt failed while its entry is present starts
\* another attempt (as long as the model has a Connection left to build),
\* and no task ever reaches the panic of InitializePeer.
C4_RetriesUntilStopped ==
    /\ [](\A t \in Tasks : pc[t] # "panic")
    /\ \A t \in Tasks :
         [](pc[t] = "backoff" => <>(pc[t] = "open_cs" \/ nextId > MaxConns))
\* the handler returns from the lookup of e.conns[msg.Key]
LookupStep == sigPc = "lookup" /\ sigPc' # "lookup"

\* the handler returns from the switch on the body type
DispatchStep == sigPc = "dispatch" /\ sigPc' # "dispatch"

\* C5: a message whose sender key has no entry makes the handler return the
\* addressing error, call no callback, and leave the map and every
\* Connection as they were; no Connection is built.
C5_UnknownSenderDropped ==
    [][(LookupStep /\ conns[msg.key] = NoConn) =>
         /\ sigRes' = "wrongly_addressed"
         /\ sigCall' = NoCall
         /\ conns' = conns
         /\ conn' = conn
         /\ nextId' = nextId]_vars

\* C5 witness: a message was dropped as wrongly addressed while the map
\* held the entry of another key.
C5_Witness ==
    /\ sigPc = "wait" /\ sigRes = "wrongly_addressed" /\ sigCall = NoCall
    /\ \E k \in MapKeys : conns[k] # NoConn

\* C6: a CANDIDATE whose sender has an entry reaches the switch with the
\* Connection of that entry; there an unparseable payload gives an error, no
\* callback and no change of the map or of any Connection, and a valid
\* payload is handed to OnRemoteCandidate of that Connection, whatever was
\* dropped before.
C6_BadCandidateDoesNotPoison ==
    [][/\ (LookupStep /\ msg.type = "CANDIDATE" /\ conns[msg.key] # NoConn) =>
            (sigPc' = "dispatch" /\ sigConn' = conns[msg.key] /\ msg' = msg)
       /\ (DispatchStep /\ msg.type = "CANDIDATE" /\ ~msg.valid) =>
            /\ sigRes' = "parse_error"
            /\ sigCall' = NoCall
            /\ conns' = conns
            /\ conn' = conn
       /\ (DispatchStep /\ msg.type = "CANDIDATE" /\ msg.valid) =>
            sigCall' = [cb |-> "OnRemoteCandidate", conn |-> sigConn]]_vars

\* C6 witness: a valid CANDIDATE was delivered to the Connection of a sender
\* from which an unparseable CANDIDATE had been dropped before.
C6_Witness ==
    /\ sigPc = "wait"
    /\ sigCall.cb = "OnRemoteCandidate"
    /\ sigRes = "ok"
    /\ badSeen = KeyOf(sigCall.conn)
    /\ conns[badSeen] = sigCall.conn

\* the keys under which a Connection has been stored so far
EverStored == {KeyOf(c) : c \in Built}

\* the caller returns from GetPeerConnectionStatus
StatusStep == callPc = "status_cs" /\ callPc' = "idle"

RemoveStep == callPc = "remove_cs" /\ callPc' = "idle"

\* C8: RemovePeerConnection(P) deletes P's entry and closes the Connection
\* it held, touching no other entry and no other Connection; without an
\* entry it changes nothing; it returns no error, and a second call right
\* after it would find nothing to remove.
C8_RemoveIdempotent ==
    [][RemoveStep =>
         /\ IF conns[callArg] # NoConn
            THEN /\ conns'[callArg] = NoConn
                 /\ conn'[conns[callArg]].status = "Closed"
                 /\ \A k \in MapKeys \ {callArg} : conns'[k] = conns[k]
                 /\ \A c \in ConnIds \ {conns[callArg]} : conn'[c] = conn[c]
            ELSE conns' = conns /\ conn' = conn
         /\ callRet' = [op |-> "remove", conn |-> NoConn, err |-> FALSE]
         /\ ~Exists(conns', callArg)
         /\ RemoveEntry(conns', callArg) = conns']_vars

\* C8 witness: a removal closed the Connection of one key and returned
\* while the entry of another key is still there.
C8_Witness ==
    /\ callRet.op = "remove" /\ callPc = "idle"
    /\ \E c \in Built : conn[c].status = "Closed" /\ conns[KeyOf(c)] = NoConn
    /\ \E k \in MapKeys : conns[k] # NoConn

\* C9: after a failed interface call Start has returned the error, the
\* handler is not registered, no task runs and the map is empty; and no task
\* runs before the handler is registered.
C9_StartAbortsOnInterfaceError ==
    /\ startErr # "nil" =>
         /\ startPc = "failed"
         /\ ~registered
         /\ \A t \in Tasks : pc[t] = "idle"
         /\ \A k \in MapKeys : conns[k] = NoConn
    /\ (\E t \in Tasks : pc[t] # "idle") => registered

\* C9 witness: the listen-port query, the last of the three calls, failed.
C9_Witness == startErr = "port" /\ startPc = "failed"
\* C10: the Connection of a failed attempt of one peer is never the map
\* entry of another peer of the engine, and no task reaches the panic of
\* InitializePeer.
C10_FailureIsolated ==
    /\ \A t \in Tasks : pc[t] # "panic"
    /\ \A t, u \in Tasks :
         (err[t] /\ peer[u] \notin {"", peer[t]}) => conns[peer[u]] # cur[t]

\* C13: an OFFER or ANSWER whose payload unmarshals and that is routed to a
\* Connection that is Connected or Closed is rejected with a state error;
\* the map and every Connection (status, remote credentials) stay as they
\* were, whatever was delivered before.
C13_LateOfferRejected ==
    [][(/\ DispatchStep
        /\ msg.type \in {"OFFER", "ANSWER"} /\ msg.valid
        /\ conn[sigConn].status \in {"Connected", "Closed"}) =>
         /\ sigRes' = "state_error"
         /\ conn' = conn
         /\ conns' = conns]_vars

\* C13 witness: a second OFFER reached a Connection that had connected on
\* the credentials of an earlier message and was rejected.
C13_Witness ==
    /\ sigPc = "wait" /\ sigRes = "state_error"
    /\ sigCall.cb = "OnOffer"
    /\ conn[sigCall.conn].status = "Connected"
    /\ conn[sigCall.conn].rcred

\* the callback the claim names for each body type
CallbackOfType(ty) ==
    CASE ty = "OFFER"     -> "OnOffer"
      [] ty = "ANSWER"    -> "OnAnswer"
      [] ty = "CANDIDATE" -> "OnRemoteCandidate"

\* what the handler does for every message whose sender has an entry, apart
\* from the choice of the callback: it goes on to the switch with the
\* Connection stored under the sender key, a new message is taken only when
\* the previous one has been handled, and the switch changes neither the map
\* nor any Connection but the one routed to.
RoutedToStoredConnection ==
    /\ (LookupStep /\ conns[msg.key] # NoConn) =>
         /\ sigPc' = "dispatch" /\ sigConn' = conns[msg.key] /\ msg' = msg
         /\ conns' = conns /\ conn' = conn
    /\ (msg' # msg /\ msg' # NoMsg) => (sigPc = "wait" /\ msg = NoMsg)
    /\ DispatchStep =>
         /\ conns' = conns
         /\ \A c \in ConnIds \ {sigConn} : conn'[c] = conn[c]

\* C14 as stated: the switch calls OnOffer for every OFFER, OnAnswer for
\* every ANSWER and OnRemoteCandidate for every CANDIDATE with a valid
\* payload, on the Connection stored under the sender key, and returns the
\* result of the callback.
C14_ExactlyOneCallback ==
    [][/\ RoutedToStoredConnection
       /\ (DispatchStep /\ (msg.type = "CANDIDATE" => msg.valid)) =>
            /\ sigCall' = [cb |-> CallbackOfType(msg.type), conn |-> sigConn]
            /\ sigRes' = Apply(CallbackOfType(msg.type), conn[sigConn]).res]_vars

\* C14 amended: the same for every message whose payload unmarshals; a
\* message of any type whose payload does not unmarshal gets the error of
\* the unmarshalling, no callback, and changes nothing.
C14_ExactlyOneCallbackIfParsed ==
    [][/\ RoutedToStoredConnection
       /\ (DispatchStep /\ msg.valid) =>
            /\ sigCall' = [cb |-> CallbackOfType(msg.type), conn |-> sigConn]
            /\ sigRes' = Apply(CallbackOfType(msg.type), conn[sigConn]).res
       /\ (DispatchStep /\ ~msg.valid) =>
            /\ sigCall' = NoCall
            /\ sigRes' = "parse_error"
            /\ conn' = conn]_vars

\* C14 witness: an ANSWER was handed to OnAnswer of the Connection stored
\* under its sender key while the map held a second entry.
C14_Witness ==
    /\ sigPc = "wait" /\ sigRes = "ok"
    /\ sigCall.cb = "OnAnswer"
    /\ conns[KeyOf(sigCall.conn)] = sigCall.conn
    /\ \E k \in MapKeys \ {KeyOf(sigCall.conn)} : conns[k] # NoConn

\* C15: no task holds PeerMux while it is inside conn.Open, in the sleep of
\* backoff.Retry or outside an attempt; every critical section ends; and a
\* call of RemovePeerConnection or GetPeerConnectionStatus returns.
C15_MutexNeverHeldAcrossOpen ==
    /\ [](\A t \in Tasks : mutex = TaskId(t) => pc[t] \in {"open_cs", "check_cs"})
    /\ [](mutex # Free => <>(mutex = Free))
    /\ [](callPc # "idle" => <>(callPc = "idle"))

\* C16: when a task stops after an attempt whose Open succeeded, the entry
\* of its peer is the Connection of that attempt; an attempt that finds
\* another Connection, or none, under its key is not taken for a success and
\* its Connection is closed.  Stated for peers whose key string is canonical.
C16_StopsOnOwnConnection ==
    [][\A t \in Tasks :
         (/\ pc[t] = "check_cs" /\ pc'[t] # "check_cs"
          /\ ~err[t]
          /\ StoreKey(peer[t]) = LookupKey(peer[t])) =>
            IF conns[LookupKey(peer[t])] = cur[t]
            THEN stopReason'[t] = "success"
            ELSE /\ stopReason'[t] # "success"
                 /\ conn'[cur[t]].status = "Closed"]_vars

\* the task's Connection is stored, under PeerMux, in the step that takes the
\* task to the call of conn.Open, when it has sent nothing yet
StoredBeforeOpen(t) ==
    (pc[t] # "opening" /\ pc'[t] = "opening") =>
        /\ mutex = TaskId(t) /\ mutex' = Free
        /\ cur'[t] # NoConn
        /\ conns'[StoreKey(peer[t])] = cur'[t]
        /\ conn'[cur'[t]].status = "New"

\* C17: every attempt stores its Connection under PeerMux before it calls
\* conn.Open; and an ANSWER or CANDIDATE from the key a task's Connection
\* sent its OFFER to, arriving while that task is inside conn.Open, is not
\* dropped as wrongly addressed unless RemovePeerConnection was called for
\* the task's peer.
C17_ReplyFindsConnection ==
    [][/\ \A t \in Tasks : StoredBeforeOpen(t)
       /\ (/\ LookupStep
           /\ msg.type \in {"ANSWER", "CANDIDATE"}
           /\ \E t \in Tasks : /\ pc[t] = "blocked"
                               /\ msg.key = StoreKey(peer[t])
                               /\ ~cancelled[t]) =>
            sigRes' # "wrongly_addressed"]_vars

\* C18: no Connection in the map is closed; a Connection becomes closed
\* only in the step of RemovePeerConnection that deletes its entry; the
\* entry of a Connection whose attempt timed out stays until it is removed
\* or a new Connection is stored over it; and while it stays, a status
\* query for the task's peer finds it.
C18_OnlyRemoveCloses ==
    /\ [](\A k \in MapKeys : conns[k] # NoConn => conn[conns[k]].status # "Closed")
    /\ [][/\ \A c \in ConnIds :
               (conn[c].status # "Closed" /\ conn'[c].status = "Closed") =>
                   (RemoveStep /\ conns[callArg] = c /\ conns'[callArg] = NoConn)
          /\ \A k \in MapKeys :
               (conns[k] # NoConn /\ conn[conns[k]].status = "Failed") =>
                   \/ conns'[k] = conns[k]
                   \/ RemoveStep /\ callArg = k
                   \/ conns'[k] = nextId /\ nextId' = nextId + 1]_vars
    /\ [](\A t \in Tasks :
            (/\ pc[t] \in {"check_lock", "check_cs"} /\ err[t]
             /\ conn[cur[t]].status = "Failed"
             /\ conns[StoreKey(peer[t])] = cur[t]) =>
                StatusOf(conns, LookupKey(peer[t])) = cur[t])

\* C19: at the presence check of every task the key its Connection was
\* stored under is the key the check looks up; hence a failed attempt whose
\* Connection is still in the map is followed by the backoff sleep, never by
\* a stop.
C19_StoreKeyIsLookupKey ==
    [][\A t \in Tasks :
         (pc[t] = "check_cs" /\ pc'[t] # "check_cs") =>
            /\ StoreKey(peer[t]) = LookupKey(peer[t])
            /\ (err[t] /\ conns[StoreKey(peer[t])] = cur[t]) => pc'[t] = "backoff"]_vars

\* C20: every map entry holds a built Connection whose remote key, printed,
\* is the key of the entry; the remote key of a Connection never changes;
\* and the handler never returns the 'unknown peer' error.
C20_EntryKeyIsRemoteKey ==
    /\ [](\A k \in MapKeys : conns[k] # NoConn => (conns[k] \in Built /\ KeyOf(conns[k]) = k))
    /\ [](sigRes # "unknown_peer")
    /\ [][\A c \in Built : conn'[c].remoteKey = conn[c].remoteKey]_vars

\* C20 witness: a message from the key the zero key prints as was handed to
\* the Connection of a peer whose key string does not parse, found under
\* that key.
C20_Witness ==
    /\ \E t \in Tasks : peer[t] = "bad!"
    /\ conns["AAAA="] # NoConn
    /\ sigCall.conn = conns["AAAA="]
    /\ conns["bad!"] = NoConn

\* what GetPeerConnectionStatus of engine e returns for its peer
PairStatus(e) ==
    IF StatusOf(pConns[e], PeerOf(e)) = NoConn THEN "not found"
    ELSE pConn[e][StatusOf(pConns[e], PeerOf(e))].status

\* the handler of engine e returns from the switch on the body type
PairDispatchStep(e) == pSigPc[e] = "dispatch" /\ pSigPc'[e] # "dispatch"

\* C11: when the relay drops nothing, an OFFER that an engine routes to its
\* Connection for the sender while that Connection is New or Negotiating is
\* recorded and answered with an ANSWER to the sender; no attempt of either
\* engine times out; and eventually both engines report their Connection
\* for the other as Connected, each having sent a CANDIDATE.
C11_PairConnects ==
    /\ [][\A e \in Engines :
            (/\ drops = {}
             /\ PairDispatchStep(e)
             /\ pMsg[e].type = "OFFER"
             /\ pConn[e][pSigConn[e]].status \in {"New", "Negotiating"}) =>
                /\ pConn'[e][pSigConn[e]].rcred
                /\ queue'[Other(e)] =
                     Append(queue[Other(e)],
                            [key |-> EngineKey(e), to |-> pMsg[e].key,
                             type |-> "ANSWER", valid |-> TRUE])]_vars
    /\ [](drops = {} => \A e \in Engines : ~pTimedOut[e])
    /\ <>(drops # {} \/ \A e \in Engines : PairStatus(e) = "Connected" /\ pCandSent[e])

====
